---- MODULE Spec2Model ----
(***************************************************************************)
(* Model of the real-time execution-tracking client of the frontend:      *)
(* frontend/src/services/websocket.ts (class WebSocketClient), and of the *)
(* hook that collects the updates, frontend/src/hooks/useWebSocket.ts;    *)
(* of the polling wait of frontend/src/services/api.ts and of the wrapper *)
(* of the API operations, frontend/src/hooks/useAPI.ts.                   *)
(*                                                                         *)
(* JavaScript runs one task at a time and drains the microtask queue at   *)
(* the end of each task, so every action below is one task: a call made   *)
(* by the caller, one event of one browser socket, or one timer expiry,   *)
(* together with the promise continuations it releases.                   *)
(***************************************************************************)
EXTENDS Integers, Sequences, FiniteSets, TLC

(* ------------------------------ bounds -------------------------------- *)
\* connect() is called only while fewer than MaxChains sockets and pending
\* reconnect timers exist (2: the caller may start a second connection
\* while one is open, in progress or waiting for its reconnect timer)
MaxChains == 2
\* where completion waiters are followed: the same bound, sockets opened in
\* one run, waiters created in one run, inbound frames delivered in one run
MaxWaitChains == 1
MaxWaitSockets == 2
MaxWaiters == 2
MaxDeliver == 1
\* the last three bounds in the shorter runs, and where the timers are fair
MaxFairSockets == 2
MaxFairWaiters == 1
MaxFairDeliver == 1

\* where the frames sent are followed in shorter runs: the bound on the
\* chains, sockets opened in one run
MaxSendChains == 2
MaxSendSockets == 2
\* where the caller's listeners are followed on the lifecycle events: the
\* bound on the chains, sockets opened in one run, listeners registered at
\* one time
MaxEventChains == 1
MaxEventSockets == 2
MaxEventListeners == 1
\* where they are followed on the inbound frames: sockets opened in one
\* run, listeners registered at one time, waiters created in one run,
\* inbound frames delivered in one run
MaxRouterSockets == 2
MaxRouterListeners == 2
MaxRouterWaiters == 1
MaxRouterDeliver == 1

\* where the hook is followed: waiters created in one run, inbound frames
\* delivered in one run
MaxHookWaiters == 1
MaxHookDeliver == 2

\* where the timers of the waiters are followed: waiters created in one
\* run, inbound frames delivered in one run
MaxTimerWaiters == 2
MaxTimerDeliver == 1

\* where the API is followed: handleAsync calls made in one run, and the
\* timeout a caller passes to waitForExecution
MaxOperations == 3
PollTimeout == 3000

\* where an outage of the backend is followed: connections of the caller
\* made or scheduled at a time
MaxReconnectChains == 2

JobIds == {"A", "B"}

(* ------------------------- program constants -------------------------- *)
maxReconnectAttempts == 5
reconnectDelay == 1000
DefaultTimeout == 30000
\* an argument the caller omits
Undefined == 0
\* a timeout a caller passes explicitly
CallerTimeout == 5000
CLEAN_CLOSE == 1000
ABNORMAL_CLOSE == 1006
CloseCodes == {CLEAN_CLOSE, ABNORMAL_CLOSE}

(* ------------------------------- state -------------------------------- *)
VARIABLES
  clientId,            \* this.clientId
  ws,                  \* this.ws: 0 is null, otherwise the id of a socket
  connected,           \* this.connected
  reconnectAttempts,   \* this.reconnectAttempts
  subscriptions,       \* this.subscriptions, a Set in insertion order
  eventHandlers,       \* this.eventHandlers: event name -> handler array
  sockets,             \* the browser sockets that carry this client's handlers
  sent,                \* the frames written to the sockets by the task that just ran
  calls,               \* the calls of the caller's listeners made by the task that just ran
  settled,             \* the connect() promises settled by the task that just ran
  created,             \* number of sockets opened so far, where a run is limited to some
  timers,              \* pending setTimeout callbacks of attemptReconnect, oldest first
  waiters,             \* the promises and timers made by waitForCompletion
  delivered,           \* number of inbound frames delivered so far
  callerDisconnected,  \* history: disconnect() was the caller's last connect/disconnect call
  offline,             \* history: the ids in the set whose subscribe() call found the client not connected
  executionUpdates,    \* useWebSocket: the state executionUpdates, execution id -> array of updates
  hook,                \* useWebSocket: "idle" before its effect ran, "mounted", "unmounted", "failed"
  recovering,          \* history: the caller called connect() after the retries were exhausted, and
                       \* only socket events followed
  loading,             \* useAPI: the state loading
  error,               \* useAPI: the state error
  operations,          \* useAPI: the handleAsync calls made, and what each returned
  poll,                \* APIClient.waitForExecution: the call in progress
  accepting            \* environment: the backend accepts every handshake from now on

clientVars == <<clientId, ws, connected, reconnectAttempts, subscriptions, eventHandlers,
                sockets, sent, calls, settled, created, timers, waiters, delivered,
                callerDisconnected, offline, executionUpdates, hook,
                recovering>>
apiVars == <<loading, error, operations, poll>>
vars == <<clientVars, apiVars, accepting>>

Max(a, b) == IF a > b THEN a ELSE b
MaxSockets == Max(Max(MaxChains, MaxWaitChains), Max(MaxSendChains, MaxEventChains)) + 1
SocketIds == 1..MaxSockets
WaiterIds == 1..Max(Max(MaxWaiters, Max(MaxHookWaiters, MaxTimerWaiters)),
                    Max(MaxFairWaiters, MaxRouterWaiters))
\* the functions a caller passes to on(): Thrower throws when it is called,
\* Listener returns
Thrower == 101
Listener == 102
ListenerIds == {Thrower, Listener}
EventNames == {"connected", "disconnected", "error", "message",
               "execution_update", "pong"}

\* promise is the promise returned by the connect() call that made the
\* socket: "pending", "resolved", "rejected", and "none" where there is no
\* socket or the socket is closed, its promise settled before
\* client_id is the client_id of the URL the socket was opened with
FreeSocket == [readyState |-> "FREE", reconnect |-> FALSE, promise |-> "none",
               client_id |-> "none"]
ClosedSocket == [readyState |-> "CLOSED", reconnect |-> FALSE, promise |-> "none",
                 client_id |-> "none"]

NoMessage == [type |-> "none", execution_id |-> "none", data |-> "none", seq |-> 0]
FreeWaiter == [state |-> "free", executionId |-> "none", timeout |-> 0,
               timer |-> FALSE, value |-> NoMessage,
               resolveCalls |-> 0, rejectCalls |-> 0, matched |-> 0]

\* the frames the backend may deliver; data is the data.type of the payload,
\* "none" when the frame carries no data
InboundMessages ==
  { [type |-> "execution_update", execution_id |-> e, data |-> d] :
      e \in JobIds \cup {"none"}, d \in {"completion", "progress", "none"} }
  \cup { [type |-> "pong", execution_id |-> "none", data |-> "none"] }

\* the frames of any backend: those, frames whose type is the name of a
\* lifecycle event, and text that is not JSON
Malformed == [type |-> "malformed", execution_id |-> "none", data |-> "none"]
WireFrames ==
  InboundMessages
    \cup { [type |-> t, execution_id |-> "none", data |-> "none"] : t \in {"connected", "error"} }
    \cup {Malformed}

\* the handlers useWebSocket registers
HandleConnect == 201
HandleDisconnect == 202
HandleMessage == 203
HandleExecutionUpdate == 204
HandleError == 205
HookHandlers == {HandleConnect, HandleDisconnect, HandleMessage,
                 HandleExecutionUpdate, HandleError}

\* an object literal {} used as a map has no own keys, and a lookup of a
\* key it does not own goes to Object.prototype: "constructor" finds the
\* function Object there. A value is an array of updates or that function.
EmptyObject == [k \in {} |-> <<>>]
PrototypeKeys == {"constructor"}
ArrayOf(q) == [kind |-> "array", items |-> q]
ObjectFunction == [kind |-> "function", items |-> <<>>]
Null == "null"
UndefinedValue == "undefined"

\* the frames the backend may deliver to the hook: those, and an update
\* whose execution id is such a key
HookFrames ==
  InboundMessages
    \cup { [type |-> "execution_update", execution_id |-> k, data |-> "progress"] :
             k \in PrototypeKeys }

\* a handleAsync call: "pending" while asyncFn runs, then "returned" with
\* the value the caller gets, or "thrown"
OperationIds == 1..MaxOperations
FreeOperation == [state |-> "free", value |-> "none"]

\* what asyncFn resolves with: the data of a response, or nothing (the
\* operations of type Promise<void>)
Results == {"data", UndefinedValue}
\* what asyncFn rejects with, an error of axios: error is
\* response.data.error, "absent" where there is no response or its body has
\* no such field; message is the message of the error
Errors == { [error |-> e, message |-> m] :
              e \in {"absent", "", "Invalid API key"},
              m \in {"", "Network Error"} }

\* waitForExecution: elapsed is Date.now() - startTime, polls the number of
\* status requests answered, status the last answer, delays the delays
\* passed to setTimeout, passedTerminal whether an answer before the last
\* was terminal
NoPoll == [pc |-> "idle", elapsed |-> 0, timeout |-> 0, polls |-> 0,
           status |-> "none", delays |-> {}, passedTerminal |-> FALSE,
           result |-> "none"]
Statuses == {"pending", "running", "completed", "failed", "cancelled"}
\* the timeouts a caller passes
CallerPollTimeouts == {-1000, 0, PollTimeout}
\* the time a status request takes, and the time by which a timer is late
RequestTimes == {0, 1000}
Lateness == {0, 1000}

\* an outbound frame as written to socket s
Frame(s, t, e) == [socket |-> s, type |-> t, execution_id |-> e]

\* the constructor: clientId || this.generateClientId(); "" is the argument
\* left out, and what generateClientId returns is made once
GeneratedClientId == "client-generated"
ClientIdArguments == {"", "tab-1"}
constructor(clientIdArgument) ==
  IF clientIdArgument # "" THEN clientIdArgument ELSE GeneratedClientId

Constructed(id) ==
  /\ clientId = id
  /\ ws = 0
  /\ connected = FALSE
  /\ reconnectAttempts = 0
  /\ subscriptions = <<>>
  /\ eventHandlers = [e \in EventNames |-> <<>>]
  /\ sockets = [s \in SocketIds |-> FreeSocket]
  /\ sent = <<>>
  /\ calls = <<>>
  /\ settled = <<>>
  /\ created = 0
  /\ timers = <<>>
  /\ waiters = [w \in WaiterIds |-> FreeWaiter]
  /\ delivered = 0
  /\ callerDisconnected = FALSE
  /\ offline = {}
  /\ executionUpdates = EmptyObject
  /\ hook = "idle"
  /\ recovering = FALSE
  /\ accepting = FALSE
  /\ loading = FALSE
  /\ error = Null
  /\ operations = [o \in OperationIds |-> FreeOperation]
  /\ poll = NoPoll

\* wsClient, the instance the module exports: new WebSocketClient()
Init == Constructed(constructor(""))

\* an instance a caller constructs, with or without a client id
InitAnyClient == \E a \in ClientIdArguments : Constructed(constructor(a))

(* ------------------------------ helpers ------------------------------- *)
RECURSIVE Pow(_, _)
Pow(b, n) == IF n = 0 THEN 1 ELSE b * Pow(b, n - 1)

Range(q) == { q[i] : i \in 1..Len(q) }

IndexOf(q, x) ==
  IF x \in Range(q) THEN CHOOSE i \in 1..Len(q) : q[i] = x /\ \A j \in 1..(i - 1) : q[j] # x
  ELSE 0

RemoveAt(q, i) == SubSeq(q, 1, i - 1) \o SubSeq(q, i + 1, Len(q))

Live(s) == sockets[s].readyState \in {"CONNECTING", "OPEN", "CLOSING"}
LiveSockets == { s \in SocketIds : Live(s) }

\* a socket object nothing refers to any more is dropped from the state
Collect(socks, ref) ==
  [s \in SocketIds |->
     IF socks[s].readyState = "CLOSED" /\ s # ref THEN FreeSocket ELSE socks[s]]

NewSocketId == CHOOSE s \in SocketIds :
                 sockets[s].readyState = "FREE" /\ \A r \in SocketIds : r < s => sockets[r].readyState # "FREE"

(* --------------------------- the client's state ----------------------- *)
\* The methods of the class read and write the fields of one object; st is
\* that object while one task runs, st.sent the frames the task has written,
\* st.calls the listeners it has called, st.settled the promises it has settled.
This == [clientId |-> clientId, ws |-> ws, connected |-> connected, reconnectAttempts |-> reconnectAttempts,
         subscriptions |-> subscriptions, eventHandlers |-> eventHandlers,
         sockets |-> sockets, sent |-> <<>>, calls |-> <<>>, settled |-> <<>>,
         timers |-> timers, waiters |-> waiters,
         executionUpdates |-> executionUpdates, hook |-> hook,
         recovering |-> FALSE]

Commit(st) ==
  /\ clientId' = st.clientId
  /\ ws' = st.ws
  /\ connected' = st.connected
  /\ reconnectAttempts' = st.reconnectAttempts
  /\ subscriptions' = st.subscriptions
  /\ eventHandlers' = st.eventHandlers
  /\ sockets' = Collect(st.sockets, st.ws)
  /\ sent' = st.sent
  /\ calls' = st.calls
  /\ settled' = st.settled
  /\ timers' = st.timers
  /\ waiters' = st.waiters
  /\ executionUpdates' = st.executionUpdates
  /\ hook' = st.hook
  /\ recovering' = st.recovering
  /\ UNCHANGED <<apiVars, accepting>>

isConnected(st) ==
  /\ st.connected
  /\ st.ws # 0
  /\ st.sockets[st.ws].readyState = "OPEN"

\* variant: the guard looks at this.connected only
sendMessage_flagOnly(st, frame) ==
  IF st.connected
  THEN [st EXCEPT !.sent = Append(@, Frame(st.ws, frame.type, frame.execution_id))]
  ELSE st

sendMessage(st, frame) ==
  IF isConnected(st)
  THEN [st EXCEPT !.sent = Append(@, Frame(st.ws, frame.type, frame.execution_id))]
  ELSE st

\* a Set of strings in insertion order: Set.add and Set.delete
SetAdd_always(q, x) == Append(q, x)
SetAdd(q, x) == IF x \in Range(q) THEN q ELSE Append(q, x)
SetDelete_first(q, x) == IF x \in Range(q) THEN Tail(q) ELSE q
SetDelete(q, x) == IF x \in Range(q) THEN RemoveAt(q, IndexOf(q, x)) ELSE q

subscribe(st, executionId) ==
  LET st1 == sendMessage(st, [type |-> "subscribe", execution_id |-> executionId])
  IN  [st1 EXCEPT !.subscriptions = SetAdd(@, executionId)]

unsubscribe(st, executionId) ==
  LET st1 == sendMessage(st, [type |-> "unsubscribe", execution_id |-> executionId])
  IN  [st1 EXCEPT !.subscriptions = SetDelete(@, executionId)]

ping(st) == sendMessage(st, [type |-> "ping", execution_id |-> "none"])

(* ----------------------------- event router --------------------------- *)
on(st, event, handler) ==
  [st EXCEPT !.eventHandlers[event] = Append(@, handler)]

\* variant: off empties the handler array of the event
off_removesAll(st, event, handler) ==
  LET index == IndexOf(st.eventHandlers[event], handler)
  IN  IF index > 0
      THEN [st EXCEPT !.eventHandlers[event] = <<>>]
      ELSE st

off(st, event, handler) ==
  LET index == IndexOf(st.eventHandlers[event], handler)
  IN  IF index > 0
      THEN [st EXCEPT !.eventHandlers[event] = RemoveAt(@, index)]
      ELSE st

\* variant: the handler leaves the timer running
completionHandler_noClearTimeout(st, w, message) ==
  IF message.execution_id = st.waiters[w].executionId /\ message.data = "completion"
  THEN LET st2 == off(st, "execution_update", w)
       IN  [st2 EXCEPT !.waiters[w].resolveCalls = @ + 1,
                       !.waiters[w].state = IF @ = "pending" THEN "resolved" ELSE @,
                       !.waiters[w].value =
                          IF st.waiters[w].state = "pending" THEN message ELSE @]
  ELSE st

\* the handler closure of waitForCompletion for waiter w
completionHandler(st, w, message) ==
  IF message.execution_id = st.waiters[w].executionId
  THEN IF message.data = "completion"
       THEN LET st1 == [st EXCEPT !.waiters[w].timer = FALSE]
                st2 == off(st1, "execution_update", w)
            IN  [st2 EXCEPT !.waiters[w].resolveCalls = @ + 1,
                            !.waiters[w].state = IF @ = "pending" THEN "resolved" ELSE @,
                            !.waiters[w].value =
                               IF st.waiters[w].state = "pending" THEN message ELSE @]
       ELSE st   \* other update types; a frame without data throws, emit catches it
  ELSE st

\* a listener of the caller is called: the call is recorded; what Thrower
\* throws is caught by the try/catch of emit and logged
listener(st, handler, event, message) ==
  [st EXCEPT !.calls = Append(@, [handler |-> handler, event |-> event,
                                  seq |-> message.seq])]

\* obj[key] is not undefined; obj[key] where it is not
Has(obj, key) == key \in DOMAIN obj \/ key \in PrototypeKeys
Get(obj, key) ==
  IF key \in DOMAIN obj THEN ArrayOf(obj[key]) ELSE ObjectFunction

\* {...obj, [key]: items}
With(obj, key, items) ==
  [k \in DOMAIN obj \cup {key} |-> IF k = key THEN items ELSE obj[k]]

\* useWebSocket.handleExecutionUpdate: the updater passed to
\* setExecutionUpdates spreads prev[id] || [] and appends message.data. A
\* value that is not iterable makes the spread throw inside the updater:
\* React drops the update and the render of the component fails.
handleExecutionUpdate(st, message) ==
  IF message.execution_id # "none"
  THEN LET id == message.execution_id
           prev == IF Has(st.executionUpdates, id)
                   THEN Get(st.executionUpdates, id) ELSE ArrayOf(<<>>)
       IN  IF prev.kind = "array"
           THEN [st EXCEPT !.executionUpdates =
                   With(@, id, Append(prev.items, message.data))]
           ELSE [st EXCEPT !.hook = "failing"]
  ELSE st

\* a handler of the hook is called; the call of handleExecutionUpdate is
\* recorded, the other handlers set state no property here reads
\* (connected, messages) or log
hookHandler(st, handler, event, message) ==
  IF handler = HandleExecutionUpdate
  THEN handleExecutionUpdate(listener(st, handler, event, message), message)
  ELSE st

callHandler(st, handler, event, message) ==
  IF handler \in ListenerIds
  THEN listener(st, handler, event, message)
  ELSE IF handler \in HookHandlers
       THEN hookHandler(st, handler, event, message)
       ELSE completionHandler(st, handler, message)

\* Array.prototype.forEach over the live handler array: indices 1..len as
\* the array was when the loop began, an index that no longer exists is
\* skipped
RECURSIVE forEach(_, _, _, _, _)
forEach(st, event, message, k, len) ==
  IF k > len THEN st
  ELSE IF k > Len(st.eventHandlers[event])
       THEN forEach(st, event, message, k + 1, len)
       ELSE forEach(callHandler(st, st.eventHandlers[event][k], event, message),
                    event, message, k + 1, len)

\* a name nothing was ever registered under has no entry in the map
emit(st, event, message) ==
  IF event \in EventNames
  THEN forEach(st, event, message, 1, Len(st.eventHandlers[event]))
  ELSE st

handleMessage(st, message) ==
  emit(emit(st, message.type, message), "message", message)

\* JSON.parse of the text of a frame; seq numbers the frames delivered
Parses(frame) == frame # Malformed
Parse(frame, seq) == [type |-> frame.type, execution_id |-> frame.execution_id,
                      data |-> frame.data, seq |-> seq]

\* onmessage: what JSON.parse throws is caught and logged
onmessage(st, frame, seq) ==
  IF Parses(frame) THEN handleMessage(st, Parse(frame, seq)) ELSE st

(* -------------------------- connection manager ------------------------ *)
\* new WebSocket(...) in connect(): the new socket replaces this.ws
\* variant: every connect() makes a new client id
connect_newClientId(st, s, byReconnect) ==
  [st EXCEPT !.sockets[s] = [readyState |-> "CONNECTING", reconnect |-> byReconnect,
                             promise |-> "pending",
                             client_id |-> IF byReconnect THEN "client-regenerated"
                                           ELSE st.clientId],
             !.ws = s]

connect(st, s, byReconnect) ==
  [st EXCEPT !.sockets[s] = [readyState |-> "CONNECTING", reconnect |-> byReconnect,
                             promise |-> "pending", client_id |-> st.clientId],
             !.ws = s]

\* resolve() and reject() of the promise made by the connect() call of
\* socket s: a promise that is settled stays as it is
Settle(st, s, outcome) ==
  IF st.sockets[s].promise = "pending"
  THEN [st EXCEPT !.sockets[s].promise = outcome,
                  !.settled = Append(@, [socket |-> s, outcome |-> outcome])]
  ELSE st

\* variant: the exponent is the counter itself
BackoffDelay_exponentOffByOne(attempts) == reconnectDelay * Pow(2, attempts)

BackoffDelay(attempts) == reconnectDelay * Pow(2, attempts - 1)

attemptReconnect(st) ==
  LET attempts == st.reconnectAttempts + 1
  IN  [st EXCEPT !.reconnectAttempts = attempts,
                 !.timers = Append(@, BackoffDelay(attempts))]

\* the loop that follows `await this.connect()` in the timer callback
RECURSIVE resubscribe(_, _)
resubscribe(st, k) ==
  IF k > Len(st.subscriptions) THEN st
  ELSE resubscribe(subscribe(st, st.subscriptions[k]), k + 1)

\* variant: onopen leaves the counter as it is
onopen_noReset(st, s) ==
  LET st1 == [st EXCEPT !.sockets[s].readyState = "OPEN",
                        !.connected = TRUE]
      st2 == emit(st1, "connected", NoMessage)
      st3 == Settle(st2, s, "resolved")
  IN  IF st.sockets[s].reconnect THEN resubscribe(st3, 1) ELSE st3

onopen(st, s) ==
  LET st1 == [st EXCEPT !.sockets[s].readyState = "OPEN",
                        !.connected = TRUE,
                        !.reconnectAttempts = 0]
      st2 == emit(st1, "connected", NoMessage)
      st3 == Settle(st2, s, "resolved")
  IN  IF st.sockets[s].reconnect THEN resubscribe(st3, 1) ELSE st3

\* variant: the comparison with the maximum is not strict
ShouldReconnect_notStrict(code, attempts) ==
  code # CLEAN_CLOSE /\ attempts <= maxReconnectAttempts

ShouldReconnect(code, attempts) ==
  code # CLEAN_CLOSE /\ attempts < maxReconnectAttempts

\* variant: every abnormal close schedules an attempt, whatever the counter
onclose_noLimit(st, s, code) ==
  LET st1 == [st EXCEPT !.sockets[s] = ClosedSocket,
                        !.connected = FALSE]
      st2 == emit(st1, "disconnected", NoMessage)
  IN  IF code # CLEAN_CLOSE
      THEN attemptReconnect(st2)
      ELSE st2

onclose(st, s, code) ==
  LET st1 == [st EXCEPT !.sockets[s] = ClosedSocket,
                        !.connected = FALSE]
      st2 == emit(st1, "disconnected", NoMessage)
  IN  IF ShouldReconnect(code, st2.reconnectAttempts)
      THEN attemptReconnect(st2)
      ELSE st2

\* variant: the error is announced and the promise is left pending
onerror_noReject(st, s) == emit(st, "error", NoMessage)

onerror(st, s) == Settle(emit(st, "error", NoMessage), s, "rejected")

\* WebSocket.close(): an open or connecting socket starts closing
close(sock) ==
  IF sock.readyState \in {"CONNECTING", "OPEN"}
  THEN [sock EXCEPT !.readyState = "CLOSING"]
  ELSE sock

disconnect(st) ==
  IF st.ws # 0
  THEN [st EXCEPT !.sockets[st.ws] = close(@),
                  !.ws = 0,
                  !.connected = FALSE,
                  !.subscriptions = <<>>]
  ELSE st

(* ------------------------------- actions ------------------------------ *)
(* ------------------------------ the hook ------------------------------ *)
\* the effect of useWebSocket: the five registrations, then connect() unless
\* the client is connected (setConnected(true) otherwise)
mount(st, s) ==
  LET st1 == on(st, "connected", HandleConnect)
      st2 == on(st1, "disconnected", HandleDisconnect)
      st3 == on(st2, "message", HandleMessage)
      st4 == on(st3, "execution_update", HandleExecutionUpdate)
      st5 == on(st4, "error", HandleError)
  IN  IF ~isConnected(st5) THEN connect(st5, s, FALSE) ELSE st5

\* the cleanup of the effect
cleanup(st) ==
  LET st1 == off(st, "connected", HandleConnect)
      st2 == off(st1, "disconnected", HandleDisconnect)
      st3 == off(st2, "message", HandleMessage)
      st4 == off(st3, "execution_update", HandleExecutionUpdate)
  IN  off(st4, "error", HandleError)

\* the render React schedules after a state update: an updater that threw
\* throws again there, and React unmounts a tree whose render failed, which
\* runs the cleanup
render(st) ==
  IF st.hook = "failing" THEN [cleanup(st) EXCEPT !.hook = "failed"] ELSE st

getExecutionUpdates(obj, executionId) ==
  IF Has(obj, executionId) THEN Get(obj, executionId) ELSE ArrayOf(<<>>)

getLatestExecutionUpdate(obj, executionId) ==
  IF Has(obj, executionId)
  THEN LET updates == Get(obj, executionId)
       IN  IF updates.kind = "array"
           THEN IF Len(updates.items) > 0
                THEN updates.items[Len(updates.items)] ELSE Null
           ELSE UndefinedValue   \* Object.length is 1 and Object[0] is undefined
  ELSE Null

(* ------------------------------- the API ------------------------------ *)
DefaultPollTimeout == 30000

\* variant: every status ends the wait
IsTerminal_any(status) == TRUE

IsTerminal(status) == status \in {"completed", "failed", "cancelled"}

\* the delay of the setTimeout that follows the poll numbered polls
pollDelay(polls) == 1000

\* variant: the loop has no test
loopTest_noTimeout(p) == [p EXCEPT !.pc = "request"]

\* the test of the while loop: the next request, or the timeout error
loopTest(p) ==
  IF p.elapsed < p.timeout
  THEN [p EXCEPT !.pc = "request"]
  ELSE [p EXCEPT !.pc = "thrown", !.result = "timed out"]

\* the body of the loop once the status request is answered
loopBody(p, status, time) ==
  LET p1 == [p EXCEPT !.elapsed = @ + time,
                      !.polls = @ + 1,
                      !.status = status,
                      !.passedTerminal = @ \/ (p.status \in {"completed", "failed", "cancelled"})]
  IN  IF IsTerminal(status)
      THEN [p1 EXCEPT !.pc = "returned", !.result = status]
      ELSE [p1 EXCEPT !.pc = "sleep", !.delays = @ \cup {pollDelay(p1.polls)}]

\* err.response?.data?.error || err.message || 'An error occurred'
errorMessage(err) ==
  IF err.error \notin {"absent", ""} THEN err.error
  ELSE IF err.message # "" THEN err.message
       ELSE "An error occurred"

\* the caller calls waitForExecution(id, t) (given), or waitForExecution(id)
PollCall(given, t) ==
  /\ poll.pc = "idle"
  /\ poll' = loopTest([NoPoll EXCEPT !.timeout = IF given THEN t ELSE DefaultPollTimeout])
  /\ UNCHANGED <<accepting, clientVars, loading, error, operations>>

\* the status request is answered
PollResponse(status, time) ==
  /\ poll.pc = "request"
  /\ poll' = loopBody(poll, status, time)
  /\ UNCHANGED <<accepting, clientVars, loading, error, operations>>

\* the status request fails: the error leaves waitForExecution
PollError(time) ==
  /\ poll.pc = "request"
  /\ poll' = [poll EXCEPT !.pc = "thrown", !.elapsed = @ + time, !.result = "request failed"]
  /\ UNCHANGED <<accepting, clientVars, loading, error, operations>>

\* the timer of the pause fires, late by some time
PollWake(late) ==
  /\ poll.pc = "sleep"
  /\ poll' = loopTest([poll EXCEPT !.elapsed = @ + 1000 + late])
  /\ UNCHANGED <<accepting, clientVars, loading, error, operations>>

NewOperationId == CHOOSE o \in OperationIds :
                    operations[o].state = "free"
                      /\ \A p \in OperationIds : p < o => operations[p].state # "free"

\* variant: the catch block passes the error on
catch_rethrows(o, err) ==
  /\ error' = error
  /\ operations' = [operations EXCEPT ![o] = [state |-> "thrown", value |-> errorMessage(err)]]

\* the catch block of handleAsync
catch(o, err) ==
  /\ error' = errorMessage(err)
  /\ operations' = [operations EXCEPT ![o] = [state |-> "returned", value |-> Null]]

\* a wrapped operation is called: handleAsync runs up to the await
ApiCall(maxOperations) ==
  /\ \E o \in OperationIds : operations[o].state = "free"
  /\ Cardinality({o \in OperationIds : operations[o].state # "free"}) < maxOperations
  /\ loading' = TRUE
  /\ error' = Null
  /\ operations' = [operations EXCEPT ![NewOperationId] = [state |-> "pending", value |-> "none"]]
  /\ UNCHANGED <<accepting, clientVars, poll>>

\* asyncFn resolves: handleAsync returns the result, then the finally block
ApiSuccess(o, result) ==
  /\ operations[o].state = "pending"
  /\ operations' = [operations EXCEPT ![o] = [state |-> "returned", value |-> result]]
  /\ loading' = FALSE
  /\ UNCHANGED <<accepting, clientVars, error, poll>>

\* asyncFn rejects: the catch block, then the finally block
ApiFailure(o, err) ==
  /\ operations[o].state = "pending"
  /\ catch(o, err)
  /\ loading' = FALSE
  /\ UNCHANGED <<accepting, clientVars, poll>>

Chains == Cardinality(LiveSockets) + Len(timers)

\* a run may be limited to maxCreated sockets; 0 is no limit, and then the
\* sockets are not counted
MayCreate(maxCreated) == maxCreated = 0 \/ created < maxCreated
Count(maxCreated) == IF maxCreated = 0 THEN created ELSE created + 1

\* the retries are exhausted: the counter is at its maximum, no timer is
\* pending and no socket is left
Exhausted ==
  /\ reconnectAttempts = maxReconnectAttempts
  /\ timers = <<>>
  /\ LiveSockets = {}

\* the caller calls connect()
CallerConnect(maxChains, maxCreated) ==
  /\ Chains < maxChains
  /\ MayCreate(maxCreated)
  /\ Commit([connect(This, NewSocketId, FALSE) EXCEPT !.recovering = Exhausted])
  /\ created' = Count(maxCreated)
  /\ callerDisconnected' = FALSE
  /\ UNCHANGED <<delivered, offline>>

\* the caller calls disconnect()
CallerDisconnect ==
  /\ Commit(disconnect(This))
  /\ callerDisconnected' = TRUE
  /\ offline' = offline \cap Range(subscriptions')
  /\ UNCHANGED <<delivered, created>>

\* the number of listeners registered
Registered ==
  Cardinality(UNION { { <<e, i>> : i \in { k \in 1..Len(eventHandlers[e]) :
                                              eventHandlers[e][k] \in ListenerIds } } :
                      e \in EventNames })

\* the caller calls on(event, h)
CallerOn(event, h, maxRegistered) ==
  /\ Registered < maxRegistered
  /\ Commit(on(This, event, h))
  /\ UNCHANGED <<delivered, created, callerDisconnected, offline>>

\* the caller calls off(event, h)
CallerOff(event, h) ==
  /\ Commit(off(This, event, h))
  /\ UNCHANGED <<delivered, created, callerDisconnected, offline>>

\* the caller calls subscribe(j)
CallerSubscribe(j) ==
  /\ Commit(subscribe(This, j))
  /\ offline' = IF isConnected(This) THEN offline \ {j} ELSE offline \cup {j}
  /\ UNCHANGED <<delivered, created, callerDisconnected>>

\* the caller calls unsubscribe(j)
CallerUnsubscribe(j) ==
  /\ Commit(unsubscribe(This, j))
  /\ offline' = offline \ {j}
  /\ UNCHANGED <<delivered, created, callerDisconnected>>

\* the caller calls ping()
CallerPing ==
  /\ Commit(ping(This))
  /\ UNCHANGED <<delivered, created, callerDisconnected, offline>>

\* the handshake of socket s completes
SocketOpen(s) ==
  /\ sockets[s].readyState = "CONNECTING"
  /\ Commit([onopen(This, s) EXCEPT !.recovering = recovering])
  /\ offline' = {}
  /\ UNCHANGED <<delivered, created, callerDisconnected>>

\* socket s fails (handshake refused, connection lost, close() while
\* connecting): the browser fires error, then close with code 1006
SocketFail(s) ==
  /\ Live(s)
  /\ sockets[s].readyState = "CONNECTING" => ~accepting
  /\ Commit([onclose(onerror(This, s), s, ABNORMAL_CLOSE) EXCEPT !.recovering = recovering])
  /\ UNCHANGED <<delivered, created, callerDisconnected, offline>>

\* the backend comes back: from now on no handshake is refused
BackendRecovers ==
  /\ ~accepting
  /\ accepting' = TRUE
  /\ UNCHANGED <<clientVars, apiVars>>

\* the handshake of socket s has completed
Established(s) == sockets[s].promise = "resolved"

\* an established socket is closed with a close frame carrying code
SocketClose(s, code) ==
  /\ sockets[s].readyState \in {"OPEN", "CLOSING"}
  /\ Established(s)
  /\ Commit([onclose(This, s, code) EXCEPT !.recovering = recovering])
  /\ UNCHANGED <<delivered, created, callerDisconnected, offline>>

\* timers fire in the order of their deadlines: a timer set earlier with a
\* delay that is not longer fires first
CanFire(i) == \A j \in 1..(i - 1) : timers[j] > timers[i]

\* the setTimeout callback of attemptReconnect runs
ReconnectTimer(i, maxCreated) ==
  /\ i \in 1..Len(timers)
  /\ CanFire(i)
  /\ MayCreate(maxCreated)
  /\ Commit(connect([This EXCEPT !.timers = RemoveAt(@, i)], NewSocketId, TRUE))
  /\ created' = Count(maxCreated)
  /\ UNCHANGED <<delivered, callerDisconnected, offline>>

\* a waiter of waitForCompletion whose deadline has not passed and that has
\* seen no terminal update of its job so far
Awaiting(w, message) ==
  /\ waiters[w].state = "pending"
  /\ waiters[w].timer
  /\ waiters[w].matched = 0
  /\ message.type = "execution_update"
  /\ message.execution_id = waiters[w].executionId
  /\ message.data = "completion"

\* socket s delivers the frame m: onmessage parses it and dispatches it
SocketMessage(s, m, maxDeliver) ==
  /\ sockets[s].readyState \in {"OPEN", "CLOSING"}
  /\ Established(s)
  /\ delivered < maxDeliver
  /\ delivered' = delivered + 1
  /\ LET message == Parse(m, delivered + 1)
         st == render(onmessage(This, m, delivered + 1))
     IN  Commit([st EXCEPT !.waiters =
                  [w \in WaiterIds |->
                     IF Awaiting(w, message)
                     THEN [st.waiters[w] EXCEPT !.matched = message.seq]
                     ELSE st.waiters[w]]])
  /\ UNCHANGED <<created, callerDisconnected, offline>>

NewWaiterId == CHOOSE w \in WaiterIds :
                 waiters[w].state = "free" /\ \A v \in WaiterIds : v < w => waiters[v].state # "free"

\* variant: a terminal update already in the history of the hook resolves
\* the new waiter at once
waitForCompletion_fromHistory(st, w, executionId, timeout) ==
  LET st1 == [st EXCEPT !.waiters[w] =
                [FreeWaiter EXCEPT !.state = "pending",
                                   !.executionId = executionId,
                                   !.timeout = IF timeout = Undefined THEN DefaultTimeout
                                               ELSE timeout,
                                   !.timer = TRUE]]
  IN  IF "completion" \in Range(getExecutionUpdates(st.executionUpdates, executionId).items)
      THEN [st1 EXCEPT !.waiters[w].state = "resolved", !.waiters[w].timer = FALSE,
                       !.waiters[w].resolveCalls = 1]
      ELSE on(st1, "execution_update", w)

waitForCompletion(st, w, executionId, timeout) ==
  LET st1 == [st EXCEPT !.waiters[w] =
                [FreeWaiter EXCEPT !.state = "pending",
                                   !.executionId = executionId,
                                   !.timeout = IF timeout = Undefined THEN DefaultTimeout
                                               ELSE timeout,
                                   !.timer = TRUE]]
  IN  on(st1, "execution_update", w)

\* the caller calls waitForCompletion(j, t), or waitForCompletion(j)
WaitForCompletion(j, t, maxWaiters) ==
  /\ Cardinality({ w \in WaiterIds : waiters[w].state # "free" }) < maxWaiters
  /\ Commit(waitForCompletion(This, NewWaiterId, j, t))
  /\ UNCHANGED <<delivered, created, callerDisconnected, offline>>

\* variant: the callback removes the listener and forgets to reject
timeoutCallback_noReject(st, w) ==
  off([st EXCEPT !.waiters[w].timer = FALSE], "execution_update", w)

\* variant: the callback rejects and leaves the listener registered
timeoutCallback_noOff(st, w) ==
  [st EXCEPT !.waiters[w].timer = FALSE,
             !.waiters[w].rejectCalls = @ + 1,
             !.waiters[w].state = IF @ = "pending" THEN "rejected" ELSE @]

timeoutCallback(st, w) ==
  LET st1 == [st EXCEPT !.waiters[w].timer = FALSE]
      st2 == off(st1, "execution_update", w)
  IN  [st2 EXCEPT !.waiters[w].rejectCalls = @ + 1,
                  !.waiters[w].state = IF @ = "pending" THEN "rejected" ELSE @]

\* the setTimeout callback of waiter w runs
WaiterTimeout(w) ==
  /\ waiters[w].timer
  /\ Commit(timeoutCallback(This, w))
  /\ UNCHANGED <<delivered, created, callerDisconnected, offline>>

\* a component that uses the hook is mounted: its effect runs
HookMount(maxChains) ==
  /\ hook = "idle"
  /\ isConnected(This) \/ Chains < maxChains
  /\ Commit([mount(This, NewSocketId) EXCEPT !.hook = "mounted"])
  /\ callerDisconnected' = (callerDisconnected /\ isConnected(This))
  /\ UNCHANGED <<delivered, created, offline>>

\* the component is unmounted
HookUnmount ==
  /\ hook = "mounted"
  /\ Commit([cleanup(This) EXCEPT !.hook = "unmounted"])
  /\ UNCHANGED <<delivered, created, callerDisconnected, offline>>

Lifecycle(maxChains, maxCreated) ==
  \/ CallerConnect(maxChains, maxCreated)
  \/ CallerDisconnect
  \/ \E s \in SocketIds : SocketOpen(s)
  \/ \E s \in SocketIds : SocketFail(s)
  \/ \E s \in SocketIds, code \in CloseCodes : SocketClose(s, code)
  \/ \E i \in 1..MaxSockets : ReconnectTimer(i, maxCreated)

Sending ==
  \/ \E j \in JobIds : CallerSubscribe(j)
  \/ \E j \in JobIds : CallerUnsubscribe(j)
  \/ CallerPing

Timeouts == {Undefined, CallerTimeout}

Waiting(timeouts, maxWaiters, maxDeliver) ==
  \/ \E j \in JobIds, t \in timeouts : WaitForCompletion(j, t, maxWaiters)
  \/ \E s \in SocketIds, m \in InboundMessages : SocketMessage(s, m, maxDeliver)
  \/ \E w \in WaiterIds : WaiterTimeout(w)

LifecycleNames == {"connected", "disconnected", "error"}
RouterNames == {"execution_update", "message", "error"}

Listening(names, maxRegistered) ==
  \/ \E e \in names, h \in ListenerIds : CallerOn(e, h, maxRegistered)
  \/ \E e \in names, h \in ListenerIds : CallerOff(e, h)

Routing(maxWaiters, maxDeliver) ==
  \/ \E j \in JobIds : WaitForCompletion(j, Undefined, maxWaiters)
  \/ \E s \in SocketIds, m \in WireFrames : SocketMessage(s, m, maxDeliver)
  \/ \E w \in WaiterIds : WaiterTimeout(w)

\* the connection and the subscriptions
Next == Lifecycle(MaxChains, 0) \/ Sending
Spec == Init /\ [][Next]_vars

\* the same in shorter runs
NextSend == Lifecycle(MaxSendChains, MaxSendSockets) \/ Sending
SpecSend == Init /\ [][NextSend]_vars

\* the connection, the inbound frames and the completion waiters
NextWait ==
  Lifecycle(MaxWaitChains, MaxWaitSockets) \/ Waiting(Timeouts, MaxWaiters, MaxDeliver)
SpecWait == Init /\ [][NextWait]_vars

\* the same in shorter runs
NextWaitShort ==
  Lifecycle(MaxWaitChains, MaxFairSockets)
     \/ Waiting(Timeouts, MaxFairWaiters, MaxFairDeliver)
SpecWaitShort == Init /\ [][NextWaitShort]_vars

\* the shorter runs where every waiter has the default timeout, and a timer
\* that is pending does fire: the browser runs the callback of an expired
\* timer, so while some waiter's timer is pending one of them fires
NextWaitFair ==
  Lifecycle(MaxWaitChains, MaxFairSockets)
     \/ Waiting({Undefined}, MaxFairWaiters, MaxFairDeliver)
SpecWaitFair ==
  Init /\ [][NextWaitFair]_vars /\ WF_vars(\E w \in WaiterIds : WaiterTimeout(w))

\* the connection and the caller's listeners on the lifecycle events
NextEvents ==
  Lifecycle(MaxEventChains, MaxEventSockets)
     \/ Listening(LifecycleNames, MaxEventListeners)
SpecEvents == Init /\ [][NextEvents]_vars

\* the connection, the inbound frames, the caller's listeners and the
\* completion waiters
NextRouter ==
  Lifecycle(MaxWaitChains, MaxRouterSockets)
     \/ Listening(RouterNames, MaxRouterListeners)
     \/ Routing(MaxRouterWaiters, MaxRouterDeliver)
SpecRouter == Init /\ [][NextRouter]_vars

\* the connection alone, one chain at a time
NextRetry == Lifecycle(MaxWaitChains, 0)
SpecRetry == Init /\ [][NextRetry]_vars

\* the same for an instance a caller constructs
SpecIdentity == InitAnyClient /\ [][NextRetry]_vars

\* the polling wait
\* an outage of the backend that ends: the caller's connect() calls, the
\* socket events and the reconnect timers; the timers fire and every
\* handshake the backend accepts completes
NextReconnect ==
  \/ CallerConnect(MaxReconnectChains, 0)
  \/ BackendRecovers
  \/ \E s \in SocketIds : SocketOpen(s)
  \/ \E s \in SocketIds : SocketFail(s)
  \/ \E s \in SocketIds, code \in CloseCodes : SocketClose(s, code)
  \/ \E i \in 1..MaxSockets : ReconnectTimer(i, 0)
SpecReconnect ==
  /\ Init /\ [][NextReconnect]_vars
  /\ WF_vars(\E i \in 1..MaxSockets : ReconnectTimer(i, 0))
  /\ \A s \in SocketIds : WF_vars(accepting /\ SocketOpen(s))

NextPoll ==
  \/ PollCall(FALSE, 0)
  \/ \E t \in CallerPollTimeouts : PollCall(TRUE, t)
  \/ \E status \in Statuses, time \in RequestTimes : PollResponse(status, time)
  \/ \E time \in RequestTimes : PollError(time)
  \/ \E late \in Lateness : PollWake(late)
SpecPoll == Init /\ [][NextPoll]_vars

\* the same where every status request is answered or fails, and the timer
\* of a pause fires
SpecPollFair ==
  /\ Init /\ [][NextPoll]_vars
  /\ WF_vars(\/ \E status \in Statuses, time \in RequestTimes : PollResponse(status, time)
             \/ \E time \in RequestTimes : PollError(time))
  /\ WF_vars(\E late \in Lateness : PollWake(late))

\* the wrapped API operations
NextAPI ==
  \/ ApiCall(MaxOperations)
  \/ \E o \in OperationIds, result \in Results : ApiSuccess(o, result)
  \/ \E o \in OperationIds, err \in Errors : ApiFailure(o, err)
SpecAPI == Init /\ [][NextAPI]_vars

\* the completion waiters and their timers beside a connection the caller
\* opens and subscribes on, whose reconnect timers do not expire in the run
NextTimers ==
  \/ CallerConnect(MaxWaitChains, 0)
  \/ \E s \in SocketIds : SocketOpen(s)
  \/ \E s \in SocketIds : SocketFail(s)
  \/ \E j \in JobIds : CallerSubscribe(j)
  \/ \E j \in JobIds : WaitForCompletion(j, Undefined, MaxTimerWaiters)
  \/ \E s \in SocketIds, m \in InboundMessages : SocketMessage(s, m, MaxTimerDeliver)
  \/ \E w \in WaiterIds : WaiterTimeout(w)
SpecTimers == Init /\ [][NextTimers]_vars

\* one component that uses the hook, the connection its effect opens, the
\* inbound frames and the completion waiters
NextHook ==
  \/ HookMount(MaxWaitChains)
  \/ HookUnmount
  \/ \E s \in SocketIds : SocketOpen(s)
  \/ \E s \in SocketIds : SocketFail(s)
  \/ \E s \in SocketIds, code \in CloseCodes : SocketClose(s, code)
  \/ \E s \in SocketIds, m \in HookFrames : SocketMessage(s, m, MaxHookDeliver)
  \/ \E j \in JobIds : WaitForCompletion(j, Undefined, MaxHookWaiters)
  \/ \E w \in WaiterIds : WaiterTimeout(w)
SpecHook ==
  Init /\ [][NextHook]_vars /\ WF_vars(\E w \in WaiterIds : WaiterTimeout(w))

(* ======================= properties of the client ===================== *)
\* log is one subscribe frame on socket s for each id of subs and nothing else
IsReplayOf(log, s, subs) ==
  /\ Len(log) = Len(subs)
  /\ \A i \in 1..Len(log) : log[i].type = "subscribe" /\ log[i].socket = s
  /\ \A j \in Range(subs) :
       Cardinality({ i \in 1..Len(log) : log[i].execution_id = j }) = 1

\* C1: a frame is written only to a socket that is open, so the task in
\* which a socket opens writes the first frames of that socket; when the
\* socket made by a reconnect timer opens, these are exactly one subscribe
\* frame for each id of the Subscription Set.
C1_ReplayOnReconnect ==
  /\ [](\A i \in 1..Len(sent) : sockets[sent[i].socket].readyState = "OPEN")
  /\ [][\A s \in SocketIds :
          (SocketOpen(s) /\ sockets[s].reconnect) =>
             IsReplayOf(sent', s, subscriptions)]_vars

\* the fifth attempt of the current run of failures has been made and has
\* failed: no timer with the fifth delay is pending and no socket is connecting
FifthAttemptFailed ==
  /\ reconnectAttempts = maxReconnectAttempts
  /\ \A i \in 1..Len(timers) : timers[i] # BackoffDelay(maxReconnectAttempts)
  /\ \A s \in SocketIds : sockets[s].readyState # "CONNECTING"

\* C2: while the counter is at five no step schedules a reconnect attempt,
\* and once the fifth attempt has failed the client is not connected, has no
\* timer pending, and only a connect() call of the caller starts a handshake.
C2_NoSixthAttempt ==
  [][/\ reconnectAttempts = maxReconnectAttempts =>
          (Len(timers') <= Len(timers) /\ reconnectAttempts' \in {0, maxReconnectAttempts})
     /\ FifthAttemptFailed =>
          /\ timers = <<>> /\ timers' = <<>>
          /\ ~connected /\ ~connected'
          /\ (\E s \in SocketIds : sockets'[s].readyState = "CONNECTING")
                => CallerConnect(MaxSockets, 0)]_vars

C2_Exhausted ==
  /\ FifthAttemptFailed
  /\ timers = <<>>
  /\ LiveSockets = {}
  /\ ~callerDisconnected

DelayTable == <<1000, 2000, 4000, 8000, 16000>>

\* C3: a step that schedules a reconnect attempt schedules one, raises the
\* counter by one to some k in 1..5 and gives the timer the delay
\* 1000 * 2^(k-1) ms; the counter changes in no other way except back to 0.
C3_BackoffDelays ==
  [][/\ Len(timers') > Len(timers) =>
          /\ Len(timers') = Len(timers) + 1
          /\ reconnectAttempts' = reconnectAttempts + 1
          /\ reconnectAttempts' \in 1..5
          /\ timers'[Len(timers')] = DelayTable[reconnectAttempts']
          /\ SubSeq(timers', 1, Len(timers)) = timers
     /\ reconnectAttempts' # reconnectAttempts =>
          (reconnectAttempts' = 0 \/ Len(timers') > Len(timers))]_vars

C3_FifthScheduled ==
  /\ reconnectAttempts = 5
  /\ timers = <<16000>>

\* C4: while the caller's last call was disconnect(), no step (in particular
\* no close event with a code other than 1000) schedules a reconnect attempt.
C4_NoReconnectAfterDisconnect ==
  [][(callerDisconnected /\ callerDisconnected') =>
        (Len(timers') <= Len(timers) /\ reconnectAttempts' <= reconnectAttempts)]_vars

\* C5: an id whose subscribe() call found the client not connected is in the
\* Subscription Set, and when the next handshake completes a subscribe frame
\* for it is sent on the new socket.
C5_OfflineSubscribeTakesEffect ==
  /\ [](offline \subseteq Range(subscriptions))
  /\ [][\A s \in SocketIds :
          SocketOpen(s) =>
             \A j \in offline :
                \E i \in 1..Len(sent') :
                   sent'[i] = Frame(s, "subscribe", j)]_vars

Settled(w) == waiters[w].state \in {"resolved", "rejected"}
Handlers == eventHandlers["execution_update"]
IsTerminalFor(message, w) ==
  /\ message.type = "execution_update"
  /\ message.execution_id = waiters[w].executionId
  /\ message.data = "completion"

\* C6: two waiters of one job that were both pending when a terminal update
\* of the job was delivered are both resolved with that message.
C6_AllWaitersResolved ==
  \A v, w \in WaiterIds :
     (v # w /\ waiters[v].matched # 0 /\ waiters[v].matched = waiters[w].matched) =>
        /\ waiters[v].state = "resolved" /\ waiters[v].value.seq = waiters[v].matched
        /\ waiters[w].state = "resolved" /\ waiters[w].value.seq = waiters[w].matched

\* C7: a waiter that was pending when a terminal update of its job was
\* delivered is resolved with that message, and a waiter is resolved by
\* nothing else: the step that resolves it delivers a terminal update of its
\* job, which becomes its value.
C7_ResolvedByTerminalUpdate ==
  /\ [](\A w \in WaiterIds :
          waiters[w].matched # 0 =>
             (waiters[w].state = "resolved" /\ waiters[w].value.seq = waiters[w].matched))
  /\ [][\A w \in WaiterIds :
          (waiters[w].state = "pending" /\ waiters'[w].state # "pending") =>
             \/ waiters'[w].state = "rejected"
             \/ /\ waiters'[w].state = "resolved"
                /\ delivered' = delivered + 1
                /\ waiters'[w].value.seq = delivered'
                /\ IsTerminalFor(waiters'[w].value, w)]_vars

\* C8: when the timer of a waiter expires and no terminal update of its job
\* was delivered since its registration, the waiter is rejected; a waiter
\* registered without a timeout has a timer of 30000 ms.
C8_TimeoutRejects ==
  [][/\ \A w \in WaiterIds :
          (WaiterTimeout(w) /\ waiters[w].matched = 0) =>
             (waiters'[w].state = "rejected" /\ waiters'[w].rejectCalls = 1)
     /\ \A j \in JobIds :
          (\E n \in WaiterIds : WaitForCompletion(j, Undefined, n)) =>
             (waiters'[NewWaiterId].timer /\ waiters'[NewWaiterId].timeout = 30000)]_vars

C8_TimedOut ==
  \E w \in WaiterIds :
     /\ waiters[w].state = "rejected"
     /\ waiters[w].matched = 0
     /\ waiters[w].timeout = 30000
     /\ delivered > 0

\* C9: the handler of a settled waiter is not registered, and the handlers
\* registered for execution updates are those of the pending waiters, each
\* once: a settled call leaves no handler behind.
C9_NoLeakedHandler ==
  /\ \A w \in WaiterIds : Settled(w) => w \notin Range(Handlers)
  /\ Range(Handlers) = { w \in WaiterIds : waiters[w].state = "pending" }
  /\ Len(Handlers) = Cardinality(Range(Handlers))

C9_ResolvedAndRemoved ==
  /\ waiters[1].state = "resolved"
  /\ waiters[1].value.seq = delivered
  /\ Handlers = <<>>

\* C10: the resolve path and the timeout path of a waiter never both run,
\* neither runs twice, a settled waiter has run exactly one of them, and
\* every pending waiter eventually settles (a settled waiter stays settled,
\* so this is: again and again no waiter is pending).
C10_SettlesExactlyOnce ==
  /\ [](\A w \in WaiterIds :
          /\ waiters[w].resolveCalls + waiters[w].rejectCalls <= 1
          /\ Settled(w) <=> waiters[w].resolveCalls + waiters[w].rejectCalls = 1
          /\ waiters[w].state = "resolved" <=> waiters[w].resolveCalls = 1)
  /\ []<>(\A w \in WaiterIds : waiters[w].state # "pending")

C10_SettledAfterDisconnect ==
  \E w \in WaiterIds :
     /\ waiters[w].state = "rejected"
     /\ waiters[w].rejectCalls = 1
     /\ callerDisconnected
     /\ ws = 0

(* --------------------------- the event router ------------------------- *)
IsListener(h) == h \in ListenerIds
\* the listeners registered under event, in the order of the handler array
ListenersOf(event) ==
  IF event \in EventNames THEN SelectSeq(eventHandlers[event], IsListener) ELSE <<>>

\* the listeners that log records as called for event, in the order of the calls
RECURSIVE CallsOf(_, _)
CallsOf(log, event) ==
  IF log = <<>> THEN <<>>
  ELSE IF Head(log).event = event
       THEN <<Head(log).handler>> \o CallsOf(Tail(log), event)
       ELSE CallsOf(Tail(log), event)

\* what follows the first x in q
After(q, x) == SubSeq(q, IndexOf(q, x) + 1, Len(q))

\* C11: in a task that calls a listener that throws for some event, the
\* listeners registered after it for that event are called after it, each
\* as often as it is registered; when the event is an inbound message the
\* listeners of 'message' are called as well and the connection is as
\* before: connected, on the same socket, no reconnect scheduled.
C11_ThrowDoesNotStopDispatch ==
  [][/\ \A e \in EventNames :
          Thrower \in Range(CallsOf(calls', e)) =>
             After(CallsOf(calls', e), Thrower) = After(ListenersOf(e), Thrower)
     /\ \A s \in SocketIds, m \in WireFrames :
          (SocketMessage(s, m, MaxRouterDeliver) /\ Thrower \in Range(CallsOf(calls', m.type))) =>
             /\ m.type # "message" => CallsOf(calls', "message") = ListenersOf("message")
             /\ isConnected(This)' = isConnected(This)
             /\ ws' = ws /\ sockets' = sockets /\ timers' = timers]_vars

\* one call of each listener registered under event, in the order of the
\* handler array, with the message numbered seq
Dispatch(event, seq) ==
  [i \in 1..Len(ListenersOf(event)) |->
     [handler |-> ListenersOf(event)[i], event |-> event, seq |-> seq]]

\* C12: the task that delivers a frame that parses calls the listeners
\* registered under the type of the message, all of them, and then the
\* listeners registered under 'message', all of them, every call with the
\* message just delivered: nothing is called for an earlier or a later frame.
C12_DispatchedTwiceInOrder ==
  [][\A s \in SocketIds, m \in WireFrames :
        (SocketMessage(s, m, MaxRouterDeliver) /\ Parses(m)) =>
           calls' = Dispatch(m.type, delivered') \o Dispatch("message", delivered')]_vars

\* C13: on() adds the handler at the end of the handlers of the event; a
\* task that calls listeners for an event, and the task that delivers a
\* message of that type, calls all the listeners registered under it, in
\* the order of registration; after off() the handler is not
\* registered under the event, so no later dispatch calls it; off() for a
\* handler that is not registered leaves the handlers as they are.
C13_RegistrationOrder ==
  [][/\ \A e \in EventNames, h \in ListenerIds :
          CallerOn(e, h, MaxRouterListeners) => eventHandlers'[e] = Append(eventHandlers[e], h)
     /\ \A e \in EventNames :
          CallsOf(calls', e) # <<>> => CallsOf(calls', e) = ListenersOf(e)
     /\ \A s \in SocketIds, m \in WireFrames :
          (SocketMessage(s, m, MaxRouterDeliver) /\ Parses(m)) =>
             CallsOf(calls', m.type) = ListenersOf(m.type)
     /\ \A e \in EventNames, h \in ListenerIds :
          CallerOff(e, h) =>
             /\ h \notin Range(eventHandlers'[e])
             /\ h \notin Range(eventHandlers[e]) => eventHandlers' = eventHandlers]_vars

\* C14: the task that delivers an inbound frame calls no listener
\* registered under 'connected', 'disconnected' or 'error'.
C14_ReservedNamesNotFromWire ==
  [][\A s \in SocketIds, m \in WireFrames :
        SocketMessage(s, m, MaxRouterDeliver) =>
           \A i \in 1..Len(calls') : calls'[i].event \notin LifecycleNames]_vars

\* C15: the task that delivers a frame that does not parse calls the
\* listeners registered under 'error' and no other listener, and leaves the
\* connection as it was.
C15_ParseFailureReported ==
  [][\A s \in SocketIds :
        SocketMessage(s, Malformed, MaxRouterDeliver) =>
           /\ CallsOf(calls', "error") = ListenersOf("error")
           /\ \A i \in 1..Len(calls') : calls'[i].event = "error"
           /\ isConnected(This)' = isConnected(This)
           /\ ws' = ws /\ sockets' = sockets /\ timers' = timers]_vars

(* ------------------------- the connection manager --------------------- *)
\* C16: after disconnect(), whatever the state it was called in, the
\* client is not connected and the Subscription Set is empty.
C16_DisconnectClears ==
  [][CallerDisconnect => (~isConnected(This)' /\ subscriptions' = <<>>)]_vars

\* what a task leaves alone when it only sends
SendOnly ==
  /\ ws' = ws /\ connected' = connected /\ reconnectAttempts' = reconnectAttempts
  /\ sockets' = sockets /\ timers' = timers /\ eventHandlers' = eventHandlers

\* C17: a frame is transmitted if and only if the client is connected, and
\* then on the open socket of the client; a send while not connected
\* transmits nothing and changes neither the connection, the counter nor
\* the Subscription Set; subscribe and unsubscribe send on the same terms.
C17_SendIffConnected ==
  [][/\ CallerPing =>
          /\ sent' = IF isConnected(This) THEN <<Frame(ws, "ping", "none")>> ELSE <<>>
          /\ SendOnly /\ subscriptions' = subscriptions
     /\ \A j \in JobIds :
          /\ CallerSubscribe(j) =>
                /\ sent' = IF isConnected(This) THEN <<Frame(ws, "subscribe", j)>> ELSE <<>>
                /\ SendOnly
          /\ CallerUnsubscribe(j) =>
                /\ sent' = IF isConnected(This) THEN <<Frame(ws, "unsubscribe", j)>> ELSE <<>>
                /\ SendOnly
     /\ \A i \in 1..Len(sent') : sockets'[sent'[i].socket].readyState = "OPEN"]_vars

\* a subscribe() was dropped while this.connected was set: the socket that
\* opened is not the one the client holds
C17_DroppedWhileFlagSet ==
  /\ offline # {}
  /\ connected
  /\ ~isConnected(This)
  /\ sent = <<>>

\* C18: the task in which the handshake of a socket completes leaves the
\* client connected and the counter at zero, calls the listeners of
\* 'connected' once each, and resolves the promise of the connect() call
\* that made the socket.
C18_HandshakeCompletes ==
  [][\A s \in SocketIds :
        SocketOpen(s) =>
           /\ isConnected(This)'
           /\ reconnectAttempts' = 0
           /\ CallsOf(calls', "connected") = ListenersOf("connected")
           /\ settled' = <<[socket |-> s, outcome |-> "resolved"]>>]_vars

\* C19: the task in which a socket fails before its handshake completed
\* rejects the promise of the connect() call that made it, leaves the
\* client not connected and the socket closed, and calls no listener of
\* 'connected'.
C19_HandshakeFails ==
  [][\A s \in SocketIds :
        (SocketFail(s) /\ ~Established(s)) =>
           /\ settled' = <<[socket |-> s, outcome |-> "rejected"]>>
           /\ ~isConnected(This)'
           /\ ~Live(s)'
           /\ CallsOf(calls', "connected") = <<>>]_vars

\* a handshake has just failed and the listeners of 'error' were told
C19_Rejected ==
  /\ Len(settled) = 1
  /\ settled[1].outcome = "rejected"
  /\ CallsOf(calls, "error") # <<>>
  /\ ~connected

\* C20: the task in which a socket closes that disconnect() has not
\* closed leaves the client not connected, calls the listeners of
\* 'disconnected' once each, and schedules a reconnect attempt if and only
\* if the counter is below 5.
C20_UnexpectedClose ==
  [][\A s \in SocketIds :
        (/\ sockets[s].readyState \in {"CONNECTING", "OPEN"}
         /\ \/ SocketFail(s)
            \/ \E code \in CloseCodes : SocketClose(s, code)) =>
           /\ ~isConnected(This)'
           /\ CallsOf(calls', "disconnected") = ListenersOf("disconnected")
           /\ IF reconnectAttempts < 5
              THEN timers' = Append(timers, BackoffDelay(reconnectAttempts + 1))
              ELSE timers' = timers]_vars

\* the sequence q without the elements equal to x
Without(q, x) == SelectSeq(q, LAMBDA y : y # x)

\* C21: unsubscribe(X) for a job id that is not in the Subscription Set
\* leaves the set as it is; for a member it removes exactly X, and the other
\* members stay, in their order. It never fails.
C21_UnsubscribeExact ==
  [][\A j \in JobIds : CallerUnsubscribe(j) =>
        /\ j \notin Range(subscriptions) => subscriptions' = subscriptions
        /\ j \in Range(subscriptions) =>
              /\ Range(subscriptions') = Range(subscriptions) \ {j}
              /\ subscriptions' = Without(subscriptions, j)]_vars

\* unsubscribe("B") has just been sent and "A" is still subscribed
C21_OthersKept ==
  /\ sent = <<Frame(ws, "unsubscribe", "B")>>
  /\ subscriptions = <<"A">>

\* the number of times x occurs in the sequence q
Occurrences(q, x) == Cardinality({i \in 1..Len(q) : q[i] = x})

\* C22: subscribe(j) leaves j in the Subscription Set exactly once; a call
\* for a member leaves the set as it is, and every call made while the
\* client is connected sends one subscribe frame for j.
C22_SubscribeIdempotent ==
  [][\A j \in JobIds : CallerSubscribe(j) =>
        /\ Range(subscriptions') = Range(subscriptions) \cup {j}
        /\ Occurrences(subscriptions', j) = 1
        /\ j \in Range(subscriptions) => subscriptions' = subscriptions
        /\ isConnected(This) => sent' = <<Frame(ws, "subscribe", j)>>]_vars

\* subscribe("A") has just been sent for a job that was subscribed before
\* "B" was: the repeated call sent its frame and the set kept one "A"
C22_Resubscribed ==
  /\ sent = <<Frame(ws, "subscribe", "A")>>
  /\ subscriptions = <<"A", "B">>

(* ------------------------------ the hook ------------------------------ *)
\* the ids a caller may ask the hook about
HookIds == JobIds \cup PrototypeKeys
history(j) == getExecutionUpdates(executionUpdates, j)
latest(j) == getLatestExecutionUpdate(executionUpdates, j)

\* this step calls handleExecutionUpdate with an update of job j whose data
\* is d
Received(j, d) ==
  /\ \E s \in SocketIds, m \in HookFrames :
        /\ SocketMessage(s, m, MaxHookDeliver)
        /\ m.type = "execution_update" /\ m.execution_id = j /\ m.data = d
  /\ \E i \in 1..Len(calls') : calls'[i].handler = HandleExecutionUpdate

UpdateData == {"completion", "progress", "none"}

\* C23: the history of a job grows by the update handleExecutionUpdate is
\* called with, at its end, when that update is of the job, and is left as
\* it is by every other step: it is the sequence of the updates received
\* for the job, in their order, duplicates included.
C23_HistoryIsArrivalOrder ==
  [][\A j \in HookIds :
        /\ \A d \in UpdateData :
              Received(j, d) => history(j)'.items = Append(history(j).items, d)
        /\ (\A d \in UpdateData : ~Received(j, d)) => history(j)' = history(j)]_vars

\* C24: every inbound execution update that carries a job id is appended to
\* the history of that job once while the hook is mounted, whatever else is
\* registered for the event.
C24_EveryUpdateAppended ==
  [][\A s \in SocketIds, m \in HookFrames :
        (/\ hook = "mounted"
         /\ SocketMessage(s, m, MaxHookDeliver)
         /\ m.type = "execution_update" /\ m.execution_id # "none") =>
           history(m.execution_id)'.items =
              Append(history(m.execution_id).items, m.data)]_vars

\* C25: latest(J) is the last element of history(J) when that is not empty;
\* when no update was received for J it is null and history(J) is the empty
\* sequence.
C25_LatestIsLast ==
  hook = "mounted" =>
    \A j \in HookIds :
       /\ history(j).kind = "array"
       /\ IF j \in DOMAIN executionUpdates
          THEN /\ history(j).items = executionUpdates[j]
               /\ latest(j) = history(j).items[Len(history(j).items)]
          ELSE /\ history(j).items = <<>>
               /\ latest(j) = Null

\* C30: waitForCompletion does not look at the history: the waiter it makes
\* is pending, with its timer running, whatever the history of the job
\* holds; what resolves a pending waiter is a step that delivers a terminal
\* update of its job, and what rejects it is its timer, which does fire.
C30_StreamOnly ==
  /\ [][\A j \in JobIds :
          WaitForCompletion(j, Undefined, MaxHookWaiters) =>
             /\ waiters'[NewWaiterId].state = "pending"
             /\ waiters'[NewWaiterId].timer]_vars
  /\ [][\A w \in WaiterIds :
          (waiters[w].state = "pending" /\ waiters'[w].state # "pending") =>
             \/ waiters'[w].state = "rejected" /\ WaiterTimeout(w)
             \/ /\ waiters'[w].state = "resolved"
                /\ delivered' = delivered + 1
                /\ waiters'[w].value.seq = delivered'
                /\ IsTerminalFor(waiters'[w].value, w)]_vars
  /\ []<>(\A w \in WaiterIds : waiters[w].state # "pending")

\* a waiter is pending, no terminal update of its job was delivered since
\* it was made, and the history of its job holds one
C30_PendingDespiteHistory ==
  \E w \in WaiterIds :
     /\ waiters[w].state = "pending"
     /\ waiters[w].matched = 0
     /\ waiters[w].executionId \in DOMAIN executionUpdates
     /\ "completion" \in Range(executionUpdates[waiters[w].executionId])

\* C26: the timer of a pending waiter rejects that waiter and removes its
\* handler; every other waiter is as it was, every other handler stays
\* registered in its place, and the connection, the counter and the
\* Subscription Set are as they were.
C26_TimeoutIsLocal ==
  [][\A w \in WaiterIds :
        (WaiterTimeout(w) /\ waiters[w].state = "pending") =>
           /\ waiters'[w].state = "rejected"
           /\ \A v \in WaiterIds \ {w} : waiters'[v] = waiters[v]
           /\ eventHandlers' =
                 [eventHandlers EXCEPT !["execution_update"] = Without(@, w)]
           /\ ws' = ws /\ connected' = connected /\ sockets' = sockets
           /\ timers' = timers /\ reconnectAttempts' = reconnectAttempts
           /\ subscriptions' = subscriptions /\ sent' = <<>>]_vars

\* a waiter was rejected by its timer while an older waiter of the same job
\* is pending and registered, the client connected and subscribed
C26_OtherStillPending ==
  \E v, w \in WaiterIds :
     /\ v < w
     /\ waiters[w].state = "rejected" /\ waiters[w].matched = 0
     /\ waiters[v].state = "pending" /\ waiters[v].timer
     /\ waiters[v].executionId = waiters[w].executionId
     /\ v \in Range(eventHandlers["execution_update"])
     /\ isConnected(This)
     /\ subscriptions # <<>>

C27_ReturnsFirstTerminal ==
  /\ poll.pc = "returned" =>
        /\ poll.result \in {"completed", "failed", "cancelled"}
        /\ poll.result = poll.status
  /\ ~poll.passedTerminal
  /\ poll.delays \subseteq {1000}
  /\ poll.pc = "sleep" => poll.status \in {"pending", "running"}

\* the wait returned after more than one request, with pauses between them
C27_ReturnedAfterPolling ==
  /\ poll.pc = "returned"
  /\ poll.polls >= 3
  /\ poll.result = "cancelled"
  /\ poll.delays = {1000}

\* the strings handleAsync may put in the error field
Messages == {"Invalid API key", "Network Error", "An error occurred"}

\* C28: a wrapped operation never throws: when asyncFn resolves, the call
\* returns its result; when asyncFn rejects, the call returns null and the
\* error field is a message string, the error of the response body if it
\* has one, else the message of the error, else a default.
C28_NeverThrows ==
  /\ [](\A o \in OperationIds : operations[o].state # "thrown")
  /\ [][\A o \in OperationIds :
          /\ \A result \in Results : ApiSuccess(o, result) =>
                operations'[o] = [state |-> "returned", value |-> result]
          /\ \A err \in Errors : ApiFailure(o, err) =>
                /\ operations'[o] = [state |-> "returned", value |-> Null]
                /\ error' \in Messages
                /\ error' = IF err.error \in Messages THEN err.error
                            ELSE IF err.message \in Messages THEN err.message
                                 ELSE "An error occurred"]_vars

\* an operation failed with an error that has neither a response nor a
\* message: the call returned null and the error field has the default
C28_FailedWithDefault ==
  /\ error = "An error occurred"
  /\ \E o \in OperationIds : operations[o] = [state |-> "returned", value |-> Null]

\* C31: a waitForExecution call whose status requests are all answered ends,
\* by returning a terminal status or by throwing; a request is only sent
\* while the elapsed time is below the timeout, so a call with a timeout of
\* 0 or less throws without a request; a request that fails ends the call
\* with that error.
C31_PollTerminates ==
  /\ [](poll.pc = "request" => poll.elapsed < poll.timeout)
  /\ [](poll.timeout <= 0 /\ poll.pc # "idle" =>
          poll.pc = "thrown" /\ poll.polls = 0 /\ poll.result = "timed out")
  /\ [](poll.pc = "returned" => poll.result \in {"completed", "failed", "cancelled"})
  /\ [][\A time \in RequestTimes : PollError(time) =>
          (poll'.pc = "thrown" /\ poll'.result = "request failed"
             /\ poll'.polls = poll.polls)]_vars
  /\ [][poll.pc \in {"returned", "thrown"} => poll' = poll]_vars
  /\ []<>(poll.pc \in {"idle", "returned", "thrown"})

\* the wait threw the timeout error after requests that were all answered
\* with a status that is not terminal
C31_TimedOutAfterPolling ==
  /\ poll.pc = "thrown"
  /\ poll.result = "timed out"
  /\ poll.polls >= 2
  /\ poll.elapsed >= poll.timeout

\* C39: the loading flag is true while a wrapped operation is in flight.
C39_LoadingWhileInFlight ==
  (\E o \in OperationIds : operations[o].state = "pending") => loading

\* C32: the client id never changes after construction, and every socket
\* of the client, made by connect() or by a reconnect attempt, is opened with
\* it.
C32_ClientIdStable ==
  /\ [](\A s \in SocketIds : Live(s) => sockets[s].client_id = clientId)
  /\ [][clientId' = clientId]_vars
  /\ [][\A s \in SocketIds :
          (~Live(s) /\ Live(s)') => sockets'[s].client_id = clientId]_vars

\* a reconnect attempt of a client constructed with a client id is
\* connecting, with that id
C32_ReconnectWithSameId ==
  /\ clientId = "tab-1"
  /\ reconnectAttempts >= 2
  /\ \E s \in SocketIds :
        /\ sockets[s].readyState = "CONNECTING"
        /\ sockets[s].reconnect
        /\ sockets[s].client_id = "tab-1"

\* C33: while the caller's last call was disconnect(), the expiry of a
\* reconnect timer makes no socket and sends nothing, and the client is not
\* connected.
C33_TimerAfterDisconnect ==
  /\ [][\A i \in 1..MaxSockets :
          (callerDisconnected /\ ReconnectTimer(i, 0)) =>
             /\ \A s \in SocketIds : Live(s)' => Live(s)
             /\ ws' = 0
             /\ sent' = <<>>]_vars
  /\ [](callerDisconnected => ~isConnected(This))

\* C34: at most one socket of the client is connecting or open.
C34_OneLiveSocket ==
  Cardinality({s \in SocketIds : sockets[s].readyState \in {"CONNECTING", "OPEN"}}) <= 1

\* C35: while the socket the client holds is open the client is connected,
\* and the close of a socket the client no longer holds neither clears the
\* flag nor schedules a reconnect attempt.
C35_StaleCloseIgnored ==
  /\ []((ws # 0 /\ sockets[ws].readyState = "OPEN") => isConnected(This))
  /\ [][\A s \in SocketIds, code \in CloseCodes :
          ((SocketClose(s, code) \/ SocketFail(s))
              /\ ws # 0 /\ s # ws /\ sockets[ws].readyState = "OPEN") =>
             (isConnected(This)' /\ timers' = timers)]_vars

\* C36: the task that delivers a message calls every listener registered
\* under its type as often as it is registered, whatever handler removes
\* itself during the dispatch.
C36_NoHandlerSkipped ==
  [][\A s \in SocketIds, m \in WireFrames :
        (SocketMessage(s, m, MaxRouterDeliver) /\ Parses(m) /\ m.type \in EventNames) =>
           \A h \in ListenerIds :
              Occurrences(CallsOf(calls', m.type), h)
                 = Occurrences(eventHandlers[m.type], h)]_vars

\* C37: in every reachable state the reconnect counter is one of 0..5.
C37_CounterInRange ==
  reconnectAttempts \in 0..maxReconnectAttempts

\* the counter is at its maximum while the handshake of the fifth attempt is
\* in progress and the caller has started a handshake of its own
C37_FifthAttemptRacing ==
  /\ reconnectAttempts = maxReconnectAttempts
  /\ \E s \in SocketIds : sockets[s].readyState = "CONNECTING" /\ sockets[s].reconnect
  /\ \E s \in SocketIds : sockets[s].readyState = "CONNECTING" /\ ~sockets[s].reconnect

\* an unexpected close has happened and the attempts are not used up
Retrying ==
  \/ reconnectAttempts \in 1..(maxReconnectAttempts - 1)
  \/ /\ reconnectAttempts = maxReconnectAttempts
     /\ \/ timers # <<>>
        \/ \E s \in SocketIds : sockets[s].readyState = "CONNECTING"

\* C38: once the backend accepts handshakes while the attempts are not used
\* up, the client becomes connected again through timers and socket events
\* alone; every abnormal close below five attempts schedules the next
\* attempt, and the expiry of its timer starts a handshake.
C38_EventuallyReconnected ==
  /\ (accepting /\ Retrying) ~> isConnected(This)
  /\ [][\A s \in SocketIds :
          (SocketFail(s) /\ reconnectAttempts < maxReconnectAttempts) =>
             (Len(timers') = Len(timers) + 1
                /\ reconnectAttempts' = reconnectAttempts + 1)]_vars
  /\ [][\A i \in 1..MaxSockets : ReconnectTimer(i, 0) =>
          (ws' # 0 /\ sockets'[ws'].readyState = "CONNECTING"
             /\ sockets'[ws'].reconnect)]_vars

TypeOK ==
  /\ ws \in 0..MaxSockets
  /\ connected \in BOOLEAN
  /\ reconnectAttempts \in 0..maxReconnectAttempts
====
